---- MODULE Spec2Model ----
(***************************************************************************)
(* LokiExecutor (src/adapters/lokijs/worker/executor.js): the executor     *)
(* between the reactive layer and the LokiJS document store.  The model    *)
(* covers the schema-version decision procedure (setUp, _migrateIfNeeded,  *)
(* _migrate, unsafeResetDatabase), the record-cache protocol (find, query, *)
(* create, update, destroyPermanently, markAsDeleted, batch,               *)
(* destroyDeletedRecords) and the local key-value accessors (getLocal,     *)
(* setLocal, removeLocal).                                                 *)
(*                                                                         *)
(* Strings that the code parses or formats (the version marker) are        *)
(* sequences of one-character strings.  A Loki collection is the sequence  *)
(* of its documents in insertion order; the internal $loki identity of a   *)
(* document is its position in that sequence.  A document is a function    *)
(* from field names to values.                                             *)
(***************************************************************************)
EXTENDS Integers, Sequences, FiniteSets, TLC

VARIABLES
    schema,         \* this.schema: [version, tables: table name -> column names]
    migrations,     \* this.migrations: Null-like NoMigrations, or the declared migrations
    loki,           \* the database: collection name -> sequence of documents
    cachedRecords,  \* this.cachedRecords: table name -> set of record ids
    pc,             \* where the executor is: constructed, migrating, ready, batch, failed
    mig,            \* the _migrateIfNeeded call in flight or last made: dbVersion, steps, next step
    batch,          \* the operations of the batch call in flight that have been executed
    last            \* the last call made on the executor and what it returned

vars == <<schema, migrations, loki, cachedRecords, pc, mig, batch, last>>

----------------------------------------------------------------------------
(* Bounds of the model *)

\* schema.version, and the version a database was written at, range over 0..MaxVersion
MaxVersion == 3

\* a batch holds at most MaxBatchLen operations
MaxBatchLen == 3

\* the versions written and read back through the marker range over 0..MaxMarker
MaxMarker == 12

----------------------------------------------------------------------------
(* Values *)

Null == "<null>"

SCHEMA_VERSION_KEY == "_loki_schema_version"

LOCAL_STORAGE == "local_storage"

Ids == {"a", "b"}

\* the (table, id) pairs the callers of the model address
Targets == {<<"tasks", "a">>, <<"tasks", "b">>, <<"comments", "a">>}

NoDoc == [f \in {} |-> Null]

----------------------------------------------------------------------------
(* `${version}` and parseInt(s, 10) *)

DigitChars == <<"0", "1", "2", "3", "4", "5", "6", "7", "8", "9">>

IsDigit(c) == \E i \in 1..Len(DigitChars) : DigitChars[i] = c

DigitValue(c) == (CHOOSE i \in 1..Len(DigitChars) : DigitChars[i] = c) - 1

RECURSIVE NumberToString(_)
NumberToString(n) ==
    IF n < 0 THEN <<"-">> \o NumberToString(0 - n)
    ELSE IF n < Len(DigitChars) THEN <<DigitChars[n + 1]>>
    ELSE NumberToString(n \div Len(DigitChars)) \o <<DigitChars[(n % Len(DigitChars)) + 1]>>

RECURSIVE SkipWhitespace(_)
SkipWhitespace(s) ==
    IF s # <<>> /\ Head(s) = " " THEN SkipWhitespace(Tail(s)) ELSE s

RECURSIVE ParseDigits(_, _, _)
ParseDigits(s, acc, seen) ==
    IF s # <<>> /\ IsDigit(Head(s))
    THEN ParseDigits(Tail(s), acc * Len(DigitChars) + DigitValue(Head(s)), TRUE)
    ELSE [nan |-> ~seen, value |-> acc]

\* parseInt(s, 10): leading whitespace, an optional sign, then the longest run of
\* digits; NaN when there is no digit
parseInt(s) ==
    LET t == SkipWhitespace(s)
        signed == t # <<>> /\ Head(t) \in {"-", "+"}
        r == ParseDigits(IF signed THEN Tail(t) ELSE t, 0, FALSE)
    IN  IF r.nan THEN r
        ELSE [nan |-> FALSE, value |-> IF signed /\ Head(t) = "-" THEN 0 - r.value ELSE r.value]

----------------------------------------------------------------------------
(* Schema and migrations *)

\* the application schema of each version: version 2 adds the column
\* tasks.position and the table comments
AppSchema(v) ==
    [version |-> v,
     tables  |-> IF v < 2 THEN ("tasks" :> {"name"})
                 ELSE ("tasks" :> {"name", "position"}) @@ ("comments" :> {"body"})]

PayloadColumn(table) == IF table = "tasks" THEN "name" ELSE "body"

CreateTable(name, columns) == [type |-> "create_table", name |-> name, columns |-> columns]

AddColumns(table, columns) == [type |-> "add_columns", table |-> table, columns |-> columns]

\* a step of a kind this executor does not know
UnknownStep == [type |-> "rename_column"]

\* the steps of the migration to version v
StepsTo(v) ==
    IF v = 2 THEN <<CreateTable("comments", {"body"}), AddColumns("tasks", {"position"})>>
    ELSE <<AddColumns("comments", {"body"})>>

\* the same with a step of unknown type put after the first step
BrokenStepsTo(v) ==
    <<Head(StepsTo(v)), UnknownStep>> \o Tail(StepsTo(v))

NoMigrations == [declared |-> FALSE]

\* migrations declared for lo -> lo+1 -> ... -> hi; the one to version `broken`
\* (if any) carries a step of unknown type
DeclaredMigrations(lo, hi, broken) ==
    [declared   |-> TRUE,
     minVersion |-> lo,
     maxVersion |-> hi,
     steps      |-> [v \in (lo + 1)..hi |-> IF v = broken THEN BrokenStepsTo(v) ELSE StepsTo(v)]]

MigrationChoices ==
    {NoMigrations} \cup
    {DeclaredMigrations(lo, hi, broken) :
        <<lo, hi, broken>> \in {x \in (1..MaxVersion) \X (1..MaxVersion) \X (0..MaxVersion) :
                                    /\ x[1] < x[2]
                                    /\ x[3] = 0 \/ (x[1] < x[3] /\ x[3] <= x[2])}}

RECURSIVE ConcatSteps(_, _, _)
ConcatSteps(m, from, to) ==
    IF from >= to THEN <<>>
    ELSE m.steps[from + 1] \o ConcatSteps(m, from + 1, to)

\* Schema/migrations/helpers stepsForMigration: the steps of the declared
\* migrations that span fromVersion -> toVersion, or not available
stepsForMigration(m, fromVersion, toVersion) ==
    IF fromVersion < m.minVersion \/ toVersion > m.maxVersion
    THEN [available |-> FALSE, steps |-> <<>>]
    ELSE [available |-> TRUE, steps |-> ConcatSteps(m, fromVersion, toVersion)]

----------------------------------------------------------------------------
(* The store: LokiJS collections *)

EmptyDatabase == [c \in {} |-> <<>>]

hasCollection(db, name) == name \in DOMAIN db

\* loki.addCollection(name): an existing collection of that name is kept
addCollection(db, name) ==
    IF hasCollection(db, name) THEN db ELSE db @@ (name :> <<>>)

\* collection.by(field, value): the position of the document, 0 when there is none
by(coll, field, value) ==
    IF \E i \in 1..Len(coll) : coll[i][field] = value
    THEN CHOOSE i \in 1..Len(coll) : coll[i][field] = value
    ELSE 0

\* collection.remove(record) of the document at position i
removeAt(coll, i) == SubSeq(coll, 1, i - 1) \o SubSeq(coll, i + 1, Len(coll))

IdsOf(coll) == {coll[i]["id"] : i \in 1..Len(coll)}

----------------------------------------------------------------------------
(* Raw records *)

\* a sanitized raw record of `table` under schema `s`, as callers pass it
RawRecord(s, table, id, status, value) ==
    [f \in {"id", "_status"} \cup s.tables[table] |->
        IF f = "id" THEN id
        ELSE IF f = "_status" THEN status
        ELSE IF f = PayloadColumn(table) THEN value
        ELSE Null]

\* RawRecord sanitizedRaw(raw, tableSchema): id, _status and exactly the columns
\* of the table schema, a missing column as null; any other field is dropped
sanitizedRaw(raw, columns) ==
    [f \in {"id", "_status"} \cup columns |-> IF f \in DOMAIN raw THEN raw[f] ELSE Null]

\* RawRecord setRawSanitized(record, column, null, columnSchema)
setRawSanitized(record, column) ==
    [f \in DOMAIN record \cup {column} |-> IF f = column THEN Null ELSE record[f]]

----------------------------------------------------------------------------
(* Local storage and the version marker *)

\* _findLocal: position of the entry of `key`, 0 when there is no entry or no collection
findLocal(db, key) ==
    IF hasCollection(db, LOCAL_STORAGE) THEN by(db[LOCAL_STORAGE], "key", key) ELSE 0

\* getLocal: [found, value]
getLocal(db, key) ==
    LET i == findLocal(db, key)
    IN  IF i = 0 THEN [found |-> FALSE, value |-> <<>>]
        ELSE [found |-> TRUE, value |-> db[LOCAL_STORAGE][i].value]

\* faulty variant of setLocal: the entry is inserted without looking for one
\* of the same key
setLocal_AlwaysInserts(db, key, value) ==
    IF ~hasCollection(db, LOCAL_STORAGE) THEN [loki |-> db, err |-> TRUE]
    ELSE [loki |-> [db EXCEPT ![LOCAL_STORAGE] = Append(@, [key |-> key, value |-> value])],
          err  |-> FALSE]

\* setLocal: upsert; a TypeError when the collection does not exist
setLocal(db, key, value) ==
    LET i == findLocal(db, key)
    IN  IF ~hasCollection(db, LOCAL_STORAGE) THEN [loki |-> db, err |-> TRUE]
        ELSE IF i # 0
        THEN [loki |-> [db EXCEPT ![LOCAL_STORAGE][i].value = value], err |-> FALSE]
        ELSE [loki |-> [db EXCEPT ![LOCAL_STORAGE] = Append(@, [key |-> key, value |-> value])],
              err  |-> FALSE]

\* removeLocal: the entry of `key` is removed when there is one
removeLocal(db, key) ==
    LET i == findLocal(db, key)
    IN  IF i = 0 THEN db ELSE [db EXCEPT ![LOCAL_STORAGE] = removeAt(@, i)]

\* get _databaseVersion: parseInt(getLocal(KEY) || '', 10) || 0
databaseVersion(db) ==
    LET stored == getLocal(db, SCHEMA_VERSION_KEY)
        parsed == parseInt(IF stored.found THEN stored.value ELSE <<>>)
    IN  IF parsed.nan THEN 0 ELSE parsed.value

\* set _databaseVersion
setDatabaseVersion(db, version) == setLocal(db, SCHEMA_VERSION_KEY, NumberToString(version))

\* faulty variant of setUpSchema: the collections are added, the version marker
\* is not written
setUpSchema_NoVersion(db, s) ==
    LET withTables == [c \in DOMAIN db \cup DOMAIN s.tables |->
                          IF c \in DOMAIN db THEN db[c] ELSE <<>>]
    IN  addCollection(withTables, LOCAL_STORAGE)

RECURSIVE addCollections(_, _)
addCollections(db, names) ==
    IF names = {} THEN db
    ELSE LET n == CHOOSE x \in names : TRUE
         IN  addCollections(addCollection(db, n), names \ {n})

\* _setUpSchema: a collection per schema table, local_storage, the version marker
setUpSchema(db, s) ==
    setDatabaseVersion(addCollection(addCollections(db, DOMAIN s.tables), LOCAL_STORAGE),
                       s.version).loki

----------------------------------------------------------------------------
(* The record cache *)

\* A table without an entry in the Map and a table whose Set is empty are the
\* same to isCached, markAsCached and removeFromCache: the model gives every
\* table a set, empty at construction and after clear().
TableNames == {x[1] : x \in Targets}

EmptyCache == [t \in TableNames |-> {}]

isCached(cache, table, id) == id \in cache[table]

markAsCached(cache, table, id) == [cache EXCEPT ![table] = @ \cup {id}]

removeFromCache(cache, table, id) == [cache EXCEPT ![table] = @ \ {id}]

----------------------------------------------------------------------------
(* The record operations, as functions of the store and the cache.  Each     *)
(* gives the store and cache it leaves, whether it threw, what it returned   *)
(* (kind, rec) and the number of store lookups it made.                      *)

Ret(db, cache, err, kind, rec, reads) ==
    [loki |-> db, cached |-> cache, err |-> err, kind |-> kind, rec |-> rec, reads |-> reads]

\* getCollection(table) is null: the call on it throws a TypeError
Thrown(db, cache) == Ret(db, cache, TRUE, "none", NoDoc, 0)

\* faulty variant of find: a record read from the store is not marked as cached
find_NoMark(db, cache, s, table, id) ==
    IF isCached(cache, table, id) THEN Ret(db, cache, FALSE, "id", NoDoc, 0)
    ELSE IF ~hasCollection(db, table) THEN Thrown(db, cache)
    ELSE LET i == by(db[table], "id", id)
         IN  IF i = 0 THEN Ret(db, cache, FALSE, "absent", NoDoc, 1)
             ELSE Ret(db, cache, FALSE, "full", sanitizedRaw(db[table][i], s.tables[table]), 1)

find(db, cache, s, table, id) ==
    IF isCached(cache, table, id) THEN Ret(db, cache, FALSE, "id", NoDoc, 0)
    ELSE IF ~hasCollection(db, table) THEN Thrown(db, cache)
    ELSE LET i == by(db[table], "id", id)
         IN  IF i = 0 THEN Ret(db, cache, FALSE, "absent", NoDoc, 1)
             ELSE Ret(db, markAsCached(cache, table, id), FALSE, "full",
                      sanitizedRaw(db[table][i], s.tables[table]), 1)

\* executeQuery(query, loki).data(): the records of query.table that satisfy the
\* query's condition, in the order of the collection
executeQuery(query, db) ==
    LET matches(doc) == query.status = "any" \/ doc["_status"] = query.status
    IN  SelectSeq(db[query.table], matches)

\* faulty variant of compactQueryResults: a record returned in full is not marked
RECURSIVE compactQueryResults_NoMark(_, _, _, _)
compactQueryResults_NoMark(records, cache, s, table) ==
    IF records = <<>> THEN [cached |-> cache, result |-> <<>>]
    ELSE LET raw  == Head(records)
             id   == raw["id"]
             rest == compactQueryResults_NoMark(Tail(records), cache, s, table)
         IN  IF isCached(cache, table, id)
             THEN [rest EXCEPT !.result = <<[kind |-> "id", id |-> id, rec |-> NoDoc]>> \o @]
             ELSE [rest EXCEPT !.result =
                      <<[kind |-> "full", id |-> id, rec |-> sanitizedRaw(raw, s.tables[table])]>>
                          \o @]

\* _compactQueryResults: records.map, each record against the cache as the
\* records before it left it
RECURSIVE compactQueryResults(_, _, _, _)
compactQueryResults(records, cache, s, table) ==
    IF records = <<>> THEN [cached |-> cache, result |-> <<>>]
    ELSE LET raw == Head(records)
             id  == raw["id"]
         IN  IF isCached(cache, table, id)
             THEN LET rest == compactQueryResults(Tail(records), cache, s, table)
                  IN  [rest EXCEPT !.result = <<[kind |-> "id", id |-> id, rec |-> NoDoc]>> \o @]
             ELSE LET rest == compactQueryResults(Tail(records), markAsCached(cache, table, id),
                                                  s, table)
                  IN  [rest EXCEPT !.result =
                          <<[kind |-> "full", id |-> id,
                             rec |-> sanitizedRaw(raw, s.tables[table])]>> \o @]

\* query: the store's result, compacted
query(db, cache, s, q) ==
    IF ~hasCollection(db, q.table) THEN Thrown(db, cache)
    ELSE LET r == compactQueryResults(executeQuery(q, db), cache, s, q.table)
         IN  Ret(db, r.cached, FALSE, "list", NoDoc, 1)

\* insert throws on a duplicate id (the collection's unique constraint on id)
create(db, cache, table, raw) ==
    IF ~hasCollection(db, table) THEN Thrown(db, cache)
    ELSE IF by(db[table], "id", raw["id"]) # 0 THEN Thrown(db, cache)
    ELSE Ret([db EXCEPT ![table] = Append(@, raw)], markAsCached(cache, table, raw["id"]),
             FALSE, "none", NoDoc, 0)

\* faulty variant of update: the updated record is evicted from the cache
update_Evicts(db, cache, table, raw) ==
    IF ~hasCollection(db, table) THEN Thrown(db, cache)
    ELSE LET i == by(db[table], "id", raw["id"])
         IN  IF i = 0 THEN Ret(db, cache, TRUE, "none", NoDoc, 1)
             ELSE Ret([db EXCEPT ![table][i] = raw], removeFromCache(cache, table, raw["id"]),
                      FALSE, "none", NoDoc, 1)

\* by('id', id).$loki throws a TypeError when there is no such record
update(db, cache, table, raw) ==
    IF ~hasCollection(db, table) THEN Thrown(db, cache)
    ELSE LET i == by(db[table], "id", raw["id"])
         IN  IF i = 0 THEN Ret(db, cache, TRUE, "none", NoDoc, 1)
             ELSE Ret([db EXCEPT ![table][i] = raw], cache, FALSE, "none", NoDoc, 1)

\* faulty variant of destroyPermanently: the record stays in the cache
destroyPermanently_KeepsCache(db, cache, table, id) ==
    IF ~hasCollection(db, table) THEN Thrown(db, cache)
    ELSE LET i == by(db[table], "id", id)
         IN  IF i = 0 THEN Ret(db, cache, TRUE, "none", NoDoc, 1)
             ELSE Ret([db EXCEPT ![table] = removeAt(@, i)], cache, FALSE, "none", NoDoc, 1)

\* collection.remove(undefined) throws, before removeFromCache is reached
destroyPermanently(db, cache, table, id) ==
    IF ~hasCollection(db, table) THEN Thrown(db, cache)
    ELSE LET i == by(db[table], "id", id)
         IN  IF i = 0 THEN Ret(db, cache, TRUE, "none", NoDoc, 1)
             ELSE Ret([db EXCEPT ![table] = removeAt(@, i)], removeFromCache(cache, table, id),
                      FALSE, "none", NoDoc, 1)

\* faulty variant of markAsDeleted: no guard on the record, so an absent record
\* throws as in destroyPermanently
markAsDeleted_ThrowsOnAbsent(db, cache, table, id) ==
    IF ~hasCollection(db, table) THEN Thrown(db, cache)
    ELSE LET i == by(db[table], "id", id)
         IN  IF i = 0 THEN Ret(db, cache, TRUE, "none", NoDoc, 1)
             ELSE Ret([db EXCEPT ![table][i]["_status"] = "deleted"],
                      removeFromCache(cache, table, id), FALSE, "none", NoDoc, 1)

markAsDeleted(db, cache, table, id) ==
    IF ~hasCollection(db, table) THEN Thrown(db, cache)
    ELSE LET i == by(db[table], "id", id)
         IN  IF i = 0 THEN Ret(db, cache, FALSE, "none", NoDoc, 1)
             ELSE Ret([db EXCEPT ![table][i]["_status"] = "deleted"],
                      removeFromCache(cache, table, id), FALSE, "none", NoDoc, 1)

\* faulty variant of removeEach: the loop stops at the first id without a record
RECURSIVE removeEach_StopsAtMissing(_, _)
removeEach_StopsAtMissing(coll, records) ==
    IF records = <<>> THEN coll
    ELSE LET i == by(coll, "id", Head(records))
         IN  IF i = 0 THEN coll
             ELSE removeEach_StopsAtMissing(removeAt(coll, i), Tail(records))

RECURSIVE removeEach(_, _)
removeEach(coll, records) ==
    IF records = <<>> THEN coll
    ELSE LET i == by(coll, "id", Head(records))
         IN  removeEach(IF i = 0 THEN coll ELSE removeAt(coll, i), Tail(records))

destroyDeletedRecords(db, cache, table, records) ==
    IF ~hasCollection(db, table) THEN Thrown(db, cache)
    ELSE Ret([db EXCEPT ![table] = removeEach(@, records)], cache, FALSE, "none", NoDoc,
             Len(records))

\* deleteDatabase followed by _openDatabase (lokiExtensions): the stored database
\* is deleted and a new, empty one is opened in its place
deleteDatabase(db) == EmptyDatabase

\* faulty variant of unsafeResetDatabase: cachedRecords is not cleared
unsafeResetDatabase_KeepsCache(db, cache, s) ==
    Ret(setUpSchema(deleteDatabase(db), s), cache, FALSE, "reset", NoDoc, 0)

\* unsafeResetDatabase: deleteDatabase, cachedRecords.clear(), _openDatabase, _setUpSchema
unsafeResetDatabase(db, cache, s) ==
    Ret(setUpSchema(deleteDatabase(db), s), EmptyCache, FALSE, "reset", NoDoc, 0)

\* one operation of a batch: the switch on its type; an unknown type does nothing
BatchTypes == {"create", "update", "markAsDeleted", "destroyPermanently"}

\* faulty variant of executeOperation: the default case of the switch throws
executeOperation_ThrowsOnUnknown(db, cache, operation) ==
    LET type  == operation[1]
        table == operation[2]
        raw   == operation[3]
    IN  IF type = "create" THEN create(db, cache, table, raw)
        ELSE IF type = "update" THEN update(db, cache, table, raw)
        ELSE IF type = "markAsDeleted" THEN markAsDeleted(db, cache, table, raw["id"])
        ELSE IF type = "destroyPermanently" THEN destroyPermanently(db, cache, table, raw["id"])
        ELSE Ret(db, cache, TRUE, "none", NoDoc, 0)

executeOperation(db, cache, operation) ==
    LET type  == operation[1]
        table == operation[2]
        raw   == operation[3]
    IN  IF type = "create" THEN create(db, cache, table, raw)
        ELSE IF type = "update" THEN update(db, cache, table, raw)
        ELSE IF type = "markAsDeleted" THEN markAsDeleted(db, cache, table, raw["id"])
        ELSE IF type = "destroyPermanently" THEN destroyPermanently(db, cache, table, raw["id"])
        ELSE Ret(db, cache, FALSE, "none", NoDoc, 0)

----------------------------------------------------------------------------
(* Migration steps *)

\* _executeAddColumnsMigration: every record of the collection gets each new
\* column set to its default; a TypeError when the collection does not exist
RECURSIVE setColumns(_, _)
setColumns(record, columns) ==
    IF columns = {} THEN record
    ELSE LET c == CHOOSE x \in columns : TRUE
         IN  setColumns(setRawSanitized(record, c), columns \ {c})

\* faulty variant of executeAddColumnsMigration: the record is rebuilt from the
\* new columns, so the columns it had are set to null with them
executeAddColumnsMigration_ClearsRecord(db, step) ==
    IF ~hasCollection(db, step.table) THEN [loki |-> db, err |-> TRUE]
    ELSE [loki |-> [db EXCEPT ![step.table] =
                        [i \in 1..Len(@) |->
                            setColumns(@[i], (DOMAIN @[i] \ {"id", "_status"}) \cup step.columns)]],
          err  |-> FALSE]

executeAddColumnsMigration(db, step) ==
    IF ~hasCollection(db, step.table) THEN [loki |-> db, err |-> TRUE]
    ELSE [loki |-> [db EXCEPT ![step.table] =
                        [i \in 1..Len(@) |-> setColumns(@[i], step.columns)]],
          err  |-> FALSE]

\* _executeCreateTableMigration -> _addCollection
executeCreateTableMigration(db, step) ==
    [loki |-> addCollection(db, step.name), err |-> FALSE]

\* faulty variant of migrateStep: a step of unknown type is skipped
migrateStep_SkipsUnknown(db, step) ==
    IF step.type = "create_table" THEN executeCreateTableMigration(db, step)
    ELSE IF step.type = "add_columns" THEN executeAddColumnsMigration(db, step)
    ELSE [loki |-> db, err |-> FALSE]

\* faulty variant of migrateStep: the version marker is advanced with each step
migrateStep_BumpsVersion(db, step) ==
    LET r == IF step.type = "create_table" THEN executeCreateTableMigration(db, step)
             ELSE IF step.type = "add_columns" THEN executeAddColumnsMigration(db, step)
             ELSE [loki |-> db, err |-> TRUE]
    IN  IF r.err THEN r ELSE setDatabaseVersion(r.loki, databaseVersion(r.loki) + 1)

\* the body of the forEach of _migrate for one step
migrateStep(db, step) ==
    IF step.type = "create_table" THEN executeCreateTableMigration(db, step)
    ELSE IF step.type = "add_columns" THEN executeAddColumnsMigration(db, step)
    ELSE [loki |-> db, err |-> TRUE]

\* _getMigrationSteps
getMigrationSteps(m, s, fromVersion) ==
    IF ~m.declared THEN [available |-> FALSE, steps |-> <<>>]
    ELSE stepsForMigration(m, fromVersion, s.version)

\* faulty variant of migrateIfNeeded: a database newer than the schema is kept
migrateIfNeeded_KeepsNewer(dbVersion, schemaVersion, stepsAvailable) ==
    IF dbVersion >= schemaVersion THEN "noop"
    ELSE IF dbVersion = 0 THEN "reset"
    ELSE IF dbVersion > 0 /\ stepsAvailable THEN "migrate"
    ELSE "reset"

\* _migrateIfNeeded: the branch taken on dbVersion, schemaVersion and whether
\* _getMigrationSteps gave steps
migrateIfNeeded(dbVersion, schemaVersion, stepsAvailable) ==
    IF dbVersion = schemaVersion THEN "noop"
    ELSE IF dbVersion = 0 THEN "reset"
    ELSE IF dbVersion > 0 /\ dbVersion < schemaVersion
    THEN IF stepsAvailable THEN "migrate" ELSE "reset"
    ELSE "reset"

\* faulty variant of cacheAfterThrow: the ids the batch's creates marked are
\* taken out of the cache again
cacheAfterThrow_Undo(cache, executed) ==
    [t \in DOMAIN cache |->
        cache[t] \ {executed[i][3]["id"] :
                        i \in {j \in 1..Len(executed) :
                                  executed[j][1] = "create" /\ executed[j][2] = t}}]

\* batch: the cache a throw of an operation leaves, after the operations
\* `executed` before it; nothing is undone
cacheAfterThrow(cache, executed) == cache

----------------------------------------------------------------------------
(* What the callers pass *)

CreatedRaw(table, id) == RawRecord(schema, table, id, "created", "v1")

UpdatedRaw(table, id) == RawRecord(schema, table, id, "updated", "v2")

\* the targets whose table the schema defines
SchemaTargets == {x \in Targets : x[1] \in DOMAIN schema.tables}

\* the lists of record ids passed to destroyDeletedRecords
RecordIdLists ==
    {<<>>} \cup {<<x>> : x \in Ids} \cup {<<x, y>> : <<x, y>> \in Ids \X Ids}

\* the serialized queries: every record of a table, or its deleted records
Queries == {[table |-> tb, status |-> st] : tb \in DOMAIN schema.tables, st \in {"any", "deleted"}}

\* the keys and values passed to the local key-value accessors
LocalKeys == {SCHEMA_VERSION_KEY, "theme"}

LocalValues == {<<"1">>, <<"2", "x">>}

\* the operations of a batch: the four known types and one unknown type, on
\* the records of tasks
BatchOperations ==
    {<<type, x[1], IF type = "update" THEN UpdatedRaw(x[1], x[2]) ELSE CreatedRaw(x[1], x[2])>> :
        <<type, x>> \in (BatchTypes \cup {"replace"}) \X {y \in SchemaTargets : y[1] = "tasks"}}

----------------------------------------------------------------------------
(* History of calls *)

\* op, table, id: the call; err, kind, rec: whether it threw and what it returned;
\* reads: the store lookups it made; k: within a batch, the position of the operation;
\* for unsafeResetDatabase, the records the database held; after, afterErr,
\* afterKind: for a find, the call made just before it on the same record;
\* records: the list of ids passed to destroyDeletedRecords; result: the list a
\* query returned, and for destroyDeletedRecords whether each listed id was stored
Call(op, table, id, r, k) ==
    [op |-> op, table |-> table, id |-> id, err |-> r.err, kind |-> r.kind, rec |-> r.rec,
     reads |-> r.reads, k |-> k, after |-> "", afterErr |-> FALSE, afterKind |-> "",
     records |-> <<>>, result |-> <<>>]

NoCall == Call("none", "", "", Ret(EmptyDatabase, EmptyCache, FALSE, "none", NoDoc, 0), 0)

SetUpCall(kind, err) ==
    Call("setUp", "", "", Ret(EmptyDatabase, EmptyCache, err, kind, NoDoc, 0), 0)

NoMigration == [dbVersion |-> 0, stored |-> getLocal(EmptyDatabase, SCHEMA_VERSION_KEY),
                steps |-> <<>>, idx |-> 0]

----------------------------------------------------------------------------
(* The databases an executor may be opened on *)

JunkMarkers == {<<>>, <<"x">>, <<"2", "x">>, <<"-", "1">>, <<" ", "1">>}

\* a database set up under the schema of version w, holding `records` in tasks
WrittenAt(w, records) ==
    [setUpSchema(EmptyDatabase, AppSchema(w)) EXCEPT !["tasks"] = records]

StoredRecords(w) == {<<>>, <<RawRecord(AppSchema(w), "tasks", "a", "created", "v1")>>}

\* the same after setLocal(SCHEMA_VERSION_KEY, marker)
WithMarker(db, marker) == setLocal(db, SCHEMA_VERSION_KEY, marker).loki

\* the same after removeLocal(SCHEMA_VERSION_KEY)
WithoutMarker(db) == [db EXCEPT ![LOCAL_STORAGE] = <<>>]

StartDatabases ==
    LET written == UNION {{WrittenAt(w, r) : r \in StoredRecords(w)} : w \in 0..MaxVersion}
    IN  {EmptyDatabase} \cup written
        \cup {WithMarker(db, m) : <<db, m>> \in written \X JunkMarkers}
        \cup {WithoutMarker(db) : db \in written}

----------------------------------------------------------------------------
(* Initial states *)

\* the executor as constructed
Constructed ==
    /\ cachedRecords = EmptyCache
    /\ pc = "constructed"
    /\ mig = NoMigration
    /\ batch = <<>>
    /\ last = NoCall

\* an application at schema version 2 with the migration from version 1,
\* started on a new database or on a database of version 1
Init ==
    /\ schema = AppSchema(2)
    /\ migrations = DeclaredMigrations(1, 2, 0)
    /\ loki \in {EmptyDatabase} \cup {WrittenAt(1, r) : r \in StoredRecords(1)}
    /\ Constructed

\* any schema version, any declared migrations, any database
InitSetUp ==
    /\ schema \in {AppSchema(v) : v \in 0..MaxVersion}
    /\ migrations \in MigrationChoices
    /\ loki \in StartDatabases
    /\ Constructed

----------------------------------------------------------------------------
(* setUp: _openDatabase, then _migrateIfNeeded *)

ResetDatabase(kind) ==
    LET r == unsafeResetDatabase(loki, cachedRecords, schema)
    IN  /\ loki' = r.loki
        /\ cachedRecords' = r.cached
        /\ pc' = "ready"
        /\ mig' = NoMigration
        /\ last' = SetUpCall(kind, FALSE)

SetUp ==
    /\ pc \in {"constructed", "failed"}
    /\ LET dbVersion == databaseVersion(loki)
           schemaVersion == schema.version
           migrationSteps == getMigrationSteps(migrations, schema, dbVersion)
           branch == migrateIfNeeded(dbVersion, schemaVersion, migrationSteps.available)
       IN  IF branch = "noop"
           THEN /\ pc' = "ready"
                /\ mig' = NoMigration
                /\ last' = SetUpCall("noop", FALSE)
                /\ UNCHANGED <<loki, cachedRecords>>
           ELSE IF branch = "migrate"
           THEN /\ pc' = "migrating"
                /\ mig' = [dbVersion |-> dbVersion,
                           stored    |-> getLocal(loki, SCHEMA_VERSION_KEY),
                           steps     |-> migrationSteps.steps,
                           idx       |-> 1]
                /\ last' = [SetUpCall("migrate", FALSE) EXCEPT
                               !.after = last.op, !.afterKind = last.kind, !.reads = last.k]
                /\ UNCHANGED <<loki, cachedRecords>>
           ELSE ResetDatabase("reset")
    /\ UNCHANGED <<schema, migrations, batch>>

\* _migrate: one step of steps.forEach; a throw leaves _migrate and setUp
MigrateStep ==
    /\ pc = "migrating"
    /\ mig.idx <= Len(mig.steps)
    /\ LET r == migrateStep(loki, mig.steps[mig.idx])
       IN  IF r.err
           THEN /\ pc' = "failed"
                /\ last' = SetUpCall("migrate", TRUE)
                /\ UNCHANGED <<loki, mig>>
           ELSE /\ loki' = r.loki
                /\ mig' = [mig EXCEPT !.idx = @ + 1]
                /\ UNCHANGED <<pc, last>>
    /\ UNCHANGED <<schema, migrations, cachedRecords, batch>>

\* _migrate: after the last step, this._databaseVersion = this.schema.version
MigrateFinish ==
    /\ pc = "migrating"
    /\ mig.idx > Len(mig.steps)
    /\ LET r == setDatabaseVersion(loki, schema.version)
       IN  /\ loki' = r.loki
           /\ pc' = IF r.err THEN "failed" ELSE "ready"
           /\ last' = [SetUpCall("migrate", r.err) EXCEPT !.k = Len(mig.steps)]
    /\ mig' = NoMigration
    /\ UNCHANGED <<schema, migrations, cachedRecords, batch>>

\* the process stops, wherever it is, and a new executor is constructed on the
\* same database: the cache is gone, the database is as it was left (last.k:
\* the steps of the migration in flight that had been applied)
Restart ==
    /\ pc # "constructed"
    /\ pc' = "constructed"
    /\ cachedRecords' = EmptyCache
    /\ batch' = <<>>
    /\ last' = [NoCall EXCEPT !.op = "restart", !.kind = pc,
                              !.k = IF pc = "migrating" THEN mig.idx - 1 ELSE 0]
    /\ UNCHANGED <<schema, migrations, loki, mig>>

----------------------------------------------------------------------------
(* The calls of a set-up executor *)

Returns(r, call) ==
    /\ loki' = r.loki
    /\ cachedRecords' = r.cached
    /\ last' = call
    /\ UNCHANGED <<schema, migrations, pc, mig, batch>>

UnsafeResetDatabase ==
    /\ pc = "ready"
    /\ LET r == unsafeResetDatabase(loki, cachedRecords, schema)
           held == {x \in SchemaTargets : hasCollection(loki, x[1]) /\ x[2] \in IdsOf(loki[x[1]])}
       IN  Returns(r, Call("unsafeResetDatabase", "", "", r, Cardinality(held)))

Find ==
    /\ pc = "ready"
    /\ \E x \in SchemaTargets :
         LET r == find(loki, cachedRecords, schema, x[1], x[2])
             same == last.table = x[1] /\ last.id = x[2]
         IN  Returns(r, [Call("find", x[1], x[2], r, 0) EXCEPT
                            !.after = IF same THEN last.op ELSE "",
                            !.afterErr = same /\ last.err,
                            !.afterKind = IF same THEN last.kind ELSE ""])

Query ==
    /\ pc = "ready"
    /\ \E q \in Queries :
         LET r == query(loki, cachedRecords, schema, q)
             records == executeQuery(q, loki)
         IN  Returns(r, [Call("query", q.table, "", r, 0) EXCEPT
                            !.records = [i \in 1..Len(records) |-> records[i]["id"]],
                            !.result = compactQueryResults(records, cachedRecords, schema,
                                                           q.table).result])

\* the call made just before on the same key, for getLocal
AfterSameKey(call, key) ==
    [call EXCEPT !.after = IF last.id = key THEN last.op ELSE "",
                 !.afterErr = last.id = key /\ last.err]

GetLocal ==
    /\ pc = "ready"
    /\ \E key \in LocalKeys :
         LET stored == getLocal(loki, key)
             r == Ret(loki, cachedRecords, FALSE, IF stored.found THEN "value" ELSE "null",
                      NoDoc, 1)
         IN  Returns(r, [AfterSameKey(Call("getLocal", LOCAL_STORAGE, key, r, 0), key)
                            EXCEPT !.records = stored.value])

SetLocal ==
    /\ pc = "ready"
    /\ \E key \in LocalKeys, value \in LocalValues :
         LET w == setLocal(loki, key, value)
             r == Ret(w.loki, cachedRecords, w.err, "none", NoDoc, 1)
         IN  Returns(r, [Call("setLocal", LOCAL_STORAGE, key, r, 0) EXCEPT !.records = value])

RemoveLocal ==
    /\ pc = "ready"
    /\ \E key \in LocalKeys :
         LET r == Ret(removeLocal(loki, key), cachedRecords, FALSE, "none", NoDoc, 1)
         IN  Returns(r, Call("removeLocal", LOCAL_STORAGE, key, r, 0))

Create ==
    /\ pc = "ready"
    /\ \E x \in SchemaTargets :
         LET r == create(loki, cachedRecords, x[1], CreatedRaw(x[1], x[2]))
         IN  Returns(r, Call("create", x[1], x[2], r, 0))

Update ==
    /\ pc = "ready"
    /\ \E x \in SchemaTargets :
         LET r == update(loki, cachedRecords, x[1], UpdatedRaw(x[1], x[2]))
         IN  Returns(r, Call("update", x[1], x[2], r, 0))

DestroyPermanently ==
    /\ pc = "ready"
    /\ \E x \in SchemaTargets :
         LET r == destroyPermanently(loki, cachedRecords, x[1], x[2])
         IN  Returns(r, Call("destroyPermanently", x[1], x[2], r, 0))

MarkAsDeleted ==
    /\ pc = "ready"
    /\ \E x \in SchemaTargets :
         LET r == markAsDeleted(loki, cachedRecords, x[1], x[2])
         IN  Returns(r, Call("markAsDeleted", x[1], x[2], r, 0))

DestroyDeletedRecords ==
    /\ pc = "ready"
    /\ \E table \in DOMAIN schema.tables, records \in RecordIdLists :
         LET r == destroyDeletedRecords(loki, cachedRecords, table, records)
         IN  Returns(r, [Call("destroyDeletedRecords", table, "", r, 0) EXCEPT
                            !.records = records,
                            !.result = [i \in 1..Len(records) |->
                                           records[i] \in IdsOf(loki[table])]])

\* batch: the next operation of operations.forEach; a throw leaves the batch
BatchStep ==
    /\ pc \in {"ready", "batch"}
    /\ Len(batch) < MaxBatchLen
    /\ \E operation \in BatchOperations :
         LET r == executeOperation(loki, cachedRecords, operation)
         IN  /\ loki' = r.loki
             /\ cachedRecords' = IF r.err THEN cacheAfterThrow(r.cached, batch) ELSE r.cached
             /\ pc' = IF r.err THEN "ready" ELSE "batch"
             /\ batch' = IF r.err THEN <<>> ELSE Append(batch, operation)
             /\ last' = [Call("batch", operation[2], operation[3]["id"], r, Len(batch) + 1)
                            EXCEPT !.kind = operation[1]]
    /\ UNCHANGED <<schema, migrations, mig>>

\* batch: the end of the list
BatchReturn ==
    /\ pc = "batch"
    /\ pc' = "ready"
    /\ batch' = <<>>
    /\ UNCHANGED <<schema, migrations, loki, cachedRecords, mig, last>>

----------------------------------------------------------------------------
(* Specifications *)

NextSetUp ==
    \/ SetUp
    \/ MigrateStep
    \/ MigrateFinish
    \/ Restart
    \/ UnsafeResetDatabase

Next ==
    \/ SetUp
    \/ MigrateStep
    \/ MigrateFinish
    \/ Restart
    \/ UnsafeResetDatabase
    \/ Find
    \/ Query
    \/ Create
    \/ Update
    \/ DestroyPermanently
    \/ MarkAsDeleted
    \/ DestroyDeletedRecords

\* the same calls made through batch
NextBatch ==
    \/ SetUp
    \/ MigrateStep
    \/ MigrateFinish
    \/ Restart
    \/ Find
    \/ BatchStep
    \/ BatchReturn

\* the local key-value accessors, on a database that holds records
NextLocal ==
    \/ SetUp
    \/ MigrateStep
    \/ MigrateFinish
    \/ Restart
    \/ UnsafeResetDatabase
    \/ Create
    \/ GetLocal
    \/ SetLocal
    \/ RemoveLocal

\* the calls of an application on its database
Spec == Init /\ [][Next]_vars

\* the batches of an application on its database
SpecBatch == Init /\ [][NextBatch]_vars

\* the local key-value accessors of an application on its database
SpecLocal == Init /\ [][NextLocal]_vars

\* setUp on every database, under every schema version and migration set
SpecSetUp == InitSetUp /\ [][NextSetUp]_vars

----------------------------------------------------------------------------
(* Properties of setUp, checked under SpecSetUp *)

UnknownType(step) == step.type \notin {"create_table", "add_columns"}

StoredMarker(db) == getLocal(db, SCHEMA_VERSION_KEY)

\* C1: after a setUp that completed without error, whatever the database it
\* was opened on, the version read back from the marker is schema.version
C1_VersionAfterSetUp ==
    (pc = "ready" /\ last.op = "setUp" /\ ~last.err)
        => databaseVersion(loki) = schema.version

\* a setUp that migrated through two or more steps and returned
C1_Witness ==
    /\ pc = "ready"
    /\ last.op = "setUp" /\ ~last.err
    /\ last.kind = "migrate" /\ last.k >= 2

\* C2: a step of unknown type makes _migrate throw at that step: setUp fails
\* with the error, the store and the marker are as they were before the
\* step, the marker is the one read before the migration, and no step is run
\* after it (the only way on is a new setUp, from the first step, or a restart)
C2_UnknownStepAborts ==
    [][/\ (/\ pc = "migrating"
           /\ mig.idx <= Len(mig.steps)
           /\ UnknownType(mig.steps[mig.idx])
           /\ pc' # "constructed")
          => /\ pc' = "failed"
             /\ last'.op = "setUp" /\ last'.err
             /\ loki' = loki
             /\ mig' = mig
             /\ StoredMarker(loki') = mig.stored
             /\ databaseVersion(loki') = mig.dbVersion
       /\ pc = "failed"
          => /\ pc' \in {"constructed", "ready", "migrating"}
             /\ pc' = "migrating" => mig'.idx = 1]_vars

\* a migration that failed at a step of unknown type, with a step run before
\* it and a step left after it
C2_Witness ==
    /\ pc = "failed"
    /\ last.op = "setUp" /\ last.err
    /\ 1 < mig.idx /\ mig.idx < Len(mig.steps)
    /\ UnknownType(mig.steps[mig.idx])

\* C3: while _migrate runs, before and after each of its steps, the marker is
\* the one read before the migration; and when the process stops there, the
\* next setUp reads the same dbVersion and starts the same steps from the first
C3_MarkerWrittenLast ==
    [][/\ pc' = "migrating"
          => /\ StoredMarker(loki') = mig'.stored
             /\ databaseVersion(loki') = mig'.dbVersion
       /\ (/\ last.op = "restart" /\ last.kind = "migrating"
           /\ pc = "constructed" /\ pc' # "constructed")
          => /\ pc' = "migrating"
             /\ mig' = [mig EXCEPT !.idx = 1]]_vars

\* the process stopped in _migrate after some but not all steps had run, on a
\* database that holds a record
C3_Witness ==
    /\ pc = "constructed"
    /\ last.op = "restart" /\ last.kind = "migrating"
    /\ 1 < mig.idx /\ mig.idx <= Len(mig.steps)
    /\ hasCollection(loki, "tasks") /\ loki["tasks"] # <<>>

\* the state unsafeResetDatabase leaves: the schema's tables and local_storage,
\* no record, an empty cache, the marker at schema.version
IsFreshlyReset(db, cache) ==
    /\ DOMAIN db = DOMAIN schema.tables \cup {LOCAL_STORAGE}
    /\ \A t \in DOMAIN schema.tables : db[t] = <<>>
    /\ \A t \in DOMAIN cache : cache[t] = {}
    /\ databaseVersion(db) = schema.version

\* every collection and every record is still there, with the fields it had
RecordsKept(before, after) ==
    \A c \in DOMAIN before :
        /\ c \in DOMAIN after
        /\ Len(after[c]) = Len(before[c])
        /\ c # LOCAL_STORAGE =>
              \A i \in 1..Len(before[c]) :
                  /\ after[c][i]["id"] = before[c][i]["id"]
                  /\ DOMAIN before[c][i] \subseteq DOMAIN after[c][i]

\* C7: setUp takes exactly one of three ways.  dbVersion = schemaVersion:
\* nothing changes.  0 < dbVersion < schemaVersion with steps available: the
\* steps are applied, without a reset (records and cache are kept).  Every
\* other case: a full reset.
C7_SetUpDecision ==
    [][LET dbVersion == databaseVersion(loki)
           schemaVersion == schema.version
           steps == getMigrationSteps(migrations, schema, dbVersion)
           upToDate == dbVersion = schemaVersion
           migratable == 0 < dbVersion /\ dbVersion < schemaVersion /\ steps.available
       IN  /\ (pc \in {"constructed", "failed"} /\ pc' \in {"ready", "migrating"})
              => /\ upToDate
                    => /\ pc' = "ready" /\ last'.kind = "noop"
                       /\ loki' = loki /\ cachedRecords' = cachedRecords
                 /\ migratable
                    => /\ pc' = "migrating" /\ last'.kind = "migrate"
                       /\ mig'.steps = steps.steps /\ mig'.idx = 1
                       /\ loki' = loki /\ cachedRecords' = cachedRecords
                 /\ (~upToDate /\ ~migratable)
                    => /\ pc' = "ready" /\ last'.kind = "reset"
                       /\ IsFreshlyReset(loki', cachedRecords')
           /\ (pc = "migrating" /\ pc' \in {"migrating", "ready"})
              => /\ RecordsKept(loki, loki')
                 /\ cachedRecords' = cachedRecords]_vars

\* a setUp that migrated a database holding a record
C7_Witness ==
    /\ pc = "ready"
    /\ last.op = "setUp" /\ last.kind = "migrate"
    /\ loki["tasks"] # <<>>
    /\ databaseVersion(loki) = schema.version

\* C19: after a setUp that completed without error, every table of the schema
\* and local_storage exist as collections of the database
C19_CollectionsAfterSetUp ==
    (pc = "ready" /\ last.op = "setUp" /\ ~last.err)
        => \A c \in DOMAIN schema.tables \cup {LOCAL_STORAGE} : hasCollection(loki, c)

\* _migrate's forEach over `steps`, from the database db
RECURSIVE ApplySteps(_, _)
ApplySteps(db, steps) ==
    IF steps = <<>> THEN [loki |-> db, err |-> FALSE]
    ELSE LET r == migrateStep(db, Head(steps))
         IN  IF r.err THEN r ELSE ApplySteps(r.loki, Tail(steps))

\* C17: an add_columns step that is applied sets every new column to its
\* default (null) on every record of the table, keeps every other field of
\* every record, the records and their order, and every other collection; and
\* when all the steps of a migration have been applied and the version is not
\* yet written, applying the same steps again from there gives the same store
C17_AddColumns ==
    [][/\ (/\ pc = "migrating" /\ pc' = "migrating"
           /\ mig.idx <= Len(mig.steps) /\ mig'.idx = mig.idx + 1
           /\ mig.steps[mig.idx].type = "add_columns")
          => LET table == mig.steps[mig.idx].table
                 columns == mig.steps[mig.idx].columns
             IN  /\ DOMAIN loki' = DOMAIN loki
                 /\ \A c \in DOMAIN loki \ {table} : loki'[c] = loki[c]
                 /\ Len(loki'[table]) = Len(loki[table])
                 /\ \A i \in 1..Len(loki[table]) :
                       /\ DOMAIN loki'[table][i] = DOMAIN loki[table][i] \cup columns
                       /\ \A f \in columns : loki'[table][i][f] = Null
                       /\ \A f \in DOMAIN loki[table][i] \ columns :
                             loki'[table][i][f] = loki[table][i][f]
       /\ (pc' = "migrating" /\ mig'.idx > Len(mig'.steps))
          => ApplySteps(loki', mig'.steps) = [loki |-> loki', err |-> FALSE]]_vars

\* the steps of a migration have all been applied a second time, to a database
\* that holds a record: the process had stopped after the first time, before
\* the version was written
C17_Witness ==
    /\ pc = "migrating" /\ mig.idx > Len(mig.steps)
    /\ \E i \in 1..Len(mig.steps) : mig.steps[i].type = "add_columns"
    /\ last.op = "setUp" /\ last.after = "restart" /\ last.afterKind = "migrating"
    /\ last.reads = Len(mig.steps)
    /\ loki["tasks"] # <<>>

----------------------------------------------------------------------------
(* Properties of the record calls, checked under Spec *)

Stored(table, id) == hasCollection(loki, table) /\ id \in IdsOf(loki[table])

\* the record of id in the collection `coll`
RecordOf(coll, id) == coll[by(coll, "id", id)]

\* the ids of a list
Listed(records) == {records[i] : i \in 1..Len(records)}

\* C4: a find that follows a destroyPermanently or markAsDeleted of the same
\* record, either of which returned without error, does not return the bare id
C4_NoBareIdAfterDelete ==
    (/\ last.op = "find"
     /\ last.after \in {"destroyPermanently", "markAsDeleted"}
     /\ ~last.afterErr)
        => last.kind # "id"

\* C5: find of a record that is stored and not cached returns the full
\* sanitized record, after one store lookup, and marks it; the find of the same
\* record that follows returns the bare id with no store lookup and changes
\* nothing; a create of an id that is already cached leaves the cache as it was
C5_FindTwice ==
    [][\A x \in SchemaTargets :
         LET table == x[1]
             id == x[2]
             call(c, op) == c.op = op /\ c.table = table /\ c.id = id
         IN  /\ (/\ call(last', "find")
                 /\ Stored(table, id)
                 /\ ~isCached(cachedRecords, table, id))
                => /\ last'.kind = "full"
                   /\ last'.rec = sanitizedRaw(loki[table][by(loki[table], "id", id)],
                                               schema.tables[table])
                   /\ last'.reads = 1
                   /\ isCached(cachedRecords', table, id)
                   /\ loki' = loki
             /\ (call(last, "find") /\ last.kind = "full" /\ call(last', "find"))
                => /\ last'.kind = "id"
                   /\ last'.reads = 0
                   /\ loki' = loki
                   /\ cachedRecords' = cachedRecords
             /\ (call(last', "create") /\ ~last'.err /\ isCached(cachedRecords, table, id))
                => cachedRecords' = cachedRecords]_vars

\* the second of two finds of a record: the first returned the full record
C5_Witness ==
    /\ last.op = "find" /\ last.kind = "id" /\ last.reads = 0
    /\ last.after = "find" /\ last.afterKind = "full"
    /\ Stored(last.table, last.id)

\* C6: after unsafeResetDatabase the schema's tables exist and are empty, the
\* cache is empty for every table, and the version marker is schema.version
C6_ResetComplete ==
    last.op = "unsafeResetDatabase" => IsFreshlyReset(loki, cachedRecords)

\* an unsafeResetDatabase of a database that held records in two tables
C6_Witness ==
    /\ last.op = "unsafeResetDatabase"
    /\ last.k = Cardinality(Targets)
    /\ pc = "ready"

\* C10: update leaves the cache as it was, whether it returns or throws; a
\* find of a cached record that follows an update returns the bare id
C10_UpdateKeepsCache ==
    [][/\ last'.op = "update" => cachedRecords' = cachedRecords
       /\ (/\ last.op = "update"
           /\ last'.op = "find" /\ last'.table = last.table /\ last'.id = last.id
           /\ isCached(cachedRecords, last.table, last.id))
          => /\ last'.kind = "id"
             /\ last'.rec = NoDoc
             /\ cachedRecords' = cachedRecords]_vars

\* a find that follows an update of a cached record: the store holds the
\* updated record, the find returns the bare id
C10_Witness ==
    /\ last.op = "find" /\ last.kind = "id"
    /\ last.after = "update" /\ ~last.afterErr
    /\ Stored(last.table, last.id)
    /\ loki[last.table][by(loki[last.table], "id", last.id)]["_status"] = "updated"

\* C14: a query returns one entry per record of the store's result, in the
\* store's order: the bare id when the id was cached before the query, the
\* full sanitized record otherwise; afterwards every returned id is cached,
\* and the store is as it was
C14_QueryCompaction ==
    [][last'.op = "query"
          => LET table == last'.table
                 ids == last'.records
                 result == last'.result
             IN  /\ ~last'.err
                 /\ Len(result) = Len(ids)
                 /\ \A i \in 1..Len(ids) :
                       /\ result[i].id = ids[i]
                       /\ result[i].kind = "id" <=> isCached(cachedRecords, table, ids[i])
                       /\ result[i].kind = "id" => result[i].rec = NoDoc
                       /\ result[i].kind # "id"
                          => /\ result[i].kind = "full"
                             /\ result[i].rec = sanitizedRaw(RecordOf(loki[table], ids[i]),
                                                              schema.tables[table])
                       /\ isCached(cachedRecords', table, ids[i])
                 /\ cachedRecords' = [cachedRecords EXCEPT ![table] = @ \cup Listed(ids)]
                 /\ loki' = loki]_vars

\* a query whose result holds a cached record, returned as its id, and after
\* it a record that was not cached, returned in full
C14_Witness ==
    /\ last.op = "query" /\ ~last.err
    /\ Len(last.result) = 2
    /\ last.result[1].kind = "id"
    /\ last.result[2].kind = "full"

\* C11: destroyPermanently of an id that has no record in the store raises no
\* error, leaves the store as it was, and the id is not cached afterwards
C11_DestroyAbsentNoOp ==
    [][(/\ last'.op = "destroyPermanently"
        /\ ~Stored(last'.table, last'.id))
          => /\ ~last'.err
             /\ loki' = loki
             /\ ~isCached(cachedRecords', last'.table, last'.id)]_vars

\* C12: markAsDeleted raises no error.  On a stored record it sets _status to
\* deleted, keeps the record in its place with every other field as it was,
\* keeps every other record, and takes the id out of the cache.  On an id
\* without a record it changes neither the store nor the cache.
C12_MarkAsDeleted ==
    [][last'.op = "markAsDeleted"
          => LET table == last'.table
                 id == last'.id
             IN  /\ ~last'.err
                 /\ Stored(table, id)
                    => /\ DOMAIN loki' = DOMAIN loki
                       /\ \A c \in DOMAIN loki \ {table} : loki'[c] = loki[c]
                       /\ Len(loki'[table]) = Len(loki[table])
                       /\ \A i \in 1..Len(loki[table]) :
                             IF loki[table][i]["id"] = id
                             THEN /\ DOMAIN loki'[table][i] = DOMAIN loki[table][i]
                                  /\ loki'[table][i]["_status"] = "deleted"
                                  /\ \A f \in DOMAIN loki[table][i] \ {"_status"} :
                                        loki'[table][i][f] = loki[table][i][f]
                             ELSE loki'[table][i] = loki[table][i]
                       /\ cachedRecords' = [cachedRecords EXCEPT ![table] = @ \ {id}]
                 /\ ~Stored(table, id)
                    => /\ loki' = loki
                       /\ cachedRecords' = cachedRecords]_vars

\* a markAsDeleted of a record that had been updated: the record is stored with
\* the updated value, marked deleted, and not cached
C12_Witness ==
    /\ last.op = "markAsDeleted" /\ ~last.err
    /\ Stored(last.table, last.id)
    /\ RecordOf(loki[last.table], last.id)["_status"] = "deleted"
    /\ RecordOf(loki[last.table], last.id)[PayloadColumn(last.table)] = "v2"
    /\ ~isCached(cachedRecords, last.table, last.id)

\* C13: destroyDeletedRecords raises no error; the records of the table that
\* are left are those whose id is not listed, unchanged and in their order,
\* wherever in the list the ids without a record are; the other collections
\* are unchanged
C13_DestroyDeletedRecords ==
    [][last'.op = "destroyDeletedRecords"
          => LET table == last'.table
                 unlisted(doc) == doc["id"] \notin Listed(last'.records)
             IN  /\ ~last'.err
                 /\ DOMAIN loki' = DOMAIN loki
                 /\ loki'[table] = SelectSeq(loki[table], unlisted)
                 /\ \A c \in DOMAIN loki \ {table} : loki'[c] = loki[c]]_vars

\* a destroyDeletedRecords of an id without a record followed by an id with a
\* record: the second one is no longer stored
C13_Witness ==
    /\ last.op = "destroyDeletedRecords" /\ ~last.err
    /\ last.result = <<FALSE, TRUE>>
    /\ ~Stored(last.table, last.records[2])

\* C18: every id in the cache set of a table has a record in the table's
\* collection, and a find that returned the bare id returned it for a record
\* the store holds
C18_CacheWithinStore ==
    /\ \A table \in TableNames : \A id \in cachedRecords[table] : Stored(table, id)
    /\ (last.op = "find" /\ last.kind = "id") => Stored(last.table, last.id)

----------------------------------------------------------------------------
(* Properties of the local key-value accessors, checked under SpecLocal *)

EntriesOf(db, key) == {i \in 1..Len(db[LOCAL_STORAGE]) : db[LOCAL_STORAGE][i].key = key}

\* every collection but local_storage is as it was
RecordsUntouched(before, after) ==
    /\ DOMAIN after = DOMAIN before
    /\ \A c \in DOMAIN before \ {LOCAL_STORAGE} : after[c] = before[c]

\* C15: setLocal(k, v) raises no error and leaves one entry of k, with value
\* v; removeLocal(k) leaves no entry of k and changes nothing when there was
\* none; both leave the entry of every other key as it was; getLocal(k)
\* changes nothing and returns v right after setLocal(k, v), null right after
\* removeLocal(k); the collection never holds two entries of a key; none of
\* the three changes the record cache or a record
C15_LocalUpsertDelete ==
    [][LET key == last'.id
           others == LocalKeys \ {key}
       IN  /\ last'.op \in {"getLocal", "setLocal", "removeLocal"}
              => /\ ~last'.err
                 /\ cachedRecords' = cachedRecords
                 /\ RecordsUntouched(loki, loki')
                 /\ \A k \in LocalKeys : Cardinality(EntriesOf(loki', k)) <= 1
                 /\ \A k \in others : getLocal(loki', k) = getLocal(loki, k)
           /\ last'.op = "setLocal"
              => /\ Cardinality(EntriesOf(loki', key)) = 1
                 /\ getLocal(loki', key) = [found |-> TRUE, value |-> last'.records]
           /\ last'.op = "removeLocal"
              => /\ EntriesOf(loki', key) = {}
                 /\ ~getLocal(loki', key).found
                 /\ EntriesOf(loki, key) = {} => loki' = loki
           /\ last'.op = "getLocal"
              => /\ loki' = loki
                 /\ (last.op = "setLocal" /\ last.id = key)
                    => last'.kind = "value" /\ last'.records = last.records
                 /\ (last.op = "removeLocal" /\ last.id = key)
                    => last'.kind = "null"]_vars

\* a getLocal right after a setLocal of the same key that replaced a value,
\* with an entry of another key stored and a record cached
C15_Witness ==
    /\ last.op = "getLocal" /\ last.after = "setLocal"
    /\ last.kind = "value" /\ last.records = <<"2", "x">>
    /\ Len(loki[LOCAL_STORAGE]) = 2
    /\ cachedRecords["tasks"] # {}

\* a string of decimal digits, with or without a minus sign before them
IsDecimalInteger(s) ==
    LET digits == IF s # <<>> /\ Head(s) = "-" THEN Tail(s) ELSE s
    IN  digits # <<>> /\ \A i \in 1..Len(digits) : IsDigit(digits[i])

\* C16: the version read from the marker is 0 when there is no local_storage
\* collection, no entry of the reserved key, or a stored value that is not a
\* decimal integer; and writing any version v >= 0 leaves one entry of the
\* reserved key, from which v is read back
C16_CurrentVersion ==
    LET stored == getLocal(loki, SCHEMA_VERSION_KEY)
    IN  /\ (\/ ~hasCollection(loki, LOCAL_STORAGE)
            \/ ~stored.found
            \/ ~IsDecimalInteger(stored.value))
              => databaseVersion(loki) = 0
        /\ hasCollection(loki, LOCAL_STORAGE)
              => \A v \in 0..MaxMarker :
                    LET w == setDatabaseVersion(loki, v)
                    IN  /\ ~w.err
                        /\ databaseVersion(w.loki) = v
                        /\ Cardinality(EntriesOf(w.loki, SCHEMA_VERSION_KEY)) = 1

----------------------------------------------------------------------------
(* Properties of batch, checked under SpecBatch *)

\* C8: the operations of a batch are executed in the order of the list; when
\* one throws, the store and the cache stay as the operations before it left
\* them, the batch ends with the error, and no further operation is executed
C8_BatchNotAtomic ==
    [][/\ (last'.op = "batch" /\ last'.err)
          => /\ loki' = loki
             /\ cachedRecords' = cachedRecords
             /\ pc' = "ready"
             /\ batch' = <<>>
             /\ last'.k = Len(batch) + 1
       /\ (pc' = "batch" /\ batch' # batch)
          => /\ \E operation \in BatchOperations : batch' = Append(batch, operation)
             /\ ~last'.err
             /\ last'.k = Len(batch')
             /\ last'.kind = "create"
                => /\ last'.id \in IdsOf(loki'[last'.table])
                   /\ isCached(cachedRecords', last'.table, last'.id)]_vars

\* a batch whose second or later operation, on record a, threw after an
\* earlier create of record b: b is stored and cached
C8_Witness ==
    /\ pc = "ready"
    /\ last.op = "batch" /\ last.err /\ last.k >= 2
    /\ last.id = "a"
    /\ Stored("tasks", "b") /\ isCached(cachedRecords, "tasks", "b")

CreateUpdateDestroy(table, id) ==
    << <<"create", table, CreatedRaw(table, id)>>,
       <<"update", table, UpdatedRaw(table, id)>>,
       <<"destroyPermanently", table, CreatedRaw(table, id)>> >>

\* C9: after the operations create(A), update(A'), destroyPermanently(A) of a
\* batch, the store holds no record of A's id, the id is not cached, and find
\* returns absent
C9_CreateUpdateDestroy ==
    \A id \in Ids :
        (pc = "batch" /\ batch = CreateUpdateDestroy("tasks", id))
            => /\ ~Stored("tasks", id)
               /\ ~isCached(cachedRecords, "tasks", id)
               /\ find(loki, cachedRecords, schema, "tasks", id).kind = "absent"

\* the batch create(A), update(A'), destroyPermanently(A) has been executed
C9_Witness ==
    /\ pc = "batch"
    /\ \E id \in Ids : batch = CreateUpdateDestroy("tasks", id)

\* C20: an operation of a batch whose type is none of create, update,
\* markAsDeleted, destroyPermanently raises no error and changes neither the
\* store nor the cache, and the batch goes on with the operations after it
C20_UnknownTypeSkipped ==
    [][(last'.op = "batch" /\ last'.k = Len(batch) + 1 /\ last'.kind \notin BatchTypes)
          => /\ ~last'.err
             /\ loki' = loki
             /\ cachedRecords' = cachedRecords
             /\ pc' = "batch"
             /\ Len(batch') = Len(batch) + 1
             /\ batch'[Len(batch')][1] = last'.kind
             /\ SubSeq(batch', 1, Len(batch)) = batch]_vars

\* a batch whose first operation is of an unknown type and whose second, a
\* create, has stored and cached its record
C20_Witness ==
    /\ pc = "batch" /\ Len(batch) >= 2
    /\ batch[1][1] \notin BatchTypes
    /\ batch[2][1] = "create"
    /\ last.op = "batch" /\ last.k = 2 /\ ~last.err
    /\ Stored(batch[2][2], batch[2][3]["id"])
    /\ isCached(cachedRecords, batch[2][2], batch[2][3]["id"])

====
